---- MODULE Spec2Model ----
(***************************************************************************)
(* Timing primitives of react-type-test: the wrappers debounce,            *)
(* debouncePress and throttle (util/module.ts) and the timer hooks         *)
(* useDebounced, useInterval, useDelay, useTimeout, useModal, useThrottle  *)
(* and useDebounce (util/hook.ts), run against a model of the host's timer *)
(* queue (setTimeout / setInterval / clearTimeout) and clock (Date.now).   *)
(*                                                                         *)
(* One behaviour follows ONE primitive instance, chosen in Init (prim).    *)
(* Time is discrete (1 unit = 1 ms step of Date.now()).  A timer callback  *)
(* runs in the instant it falls due: the clock does not advance past a due *)
(* timer, but a call made in that same instant may run before or after the *)
(* callback, as the event loop does not order the two.                     *)
(***************************************************************************)
EXTENDS Integers, Sequences, FiniteSets

\* ---------------------------------------------------------------- bounds
MaxTime == 3        \* the clock runs over Epoch .. Epoch + MaxTime
MaxDelay == 2       \* wait / delay arguments range over 0 .. MaxDelay
MaxCalls == 3       \* calls to a wrapper (or to the useDelay trigger)
MaxArg == 2         \* a call's argument ranges over 1 .. MaxArg
MaxRenders == 2     \* renders of the owning component (the first included)

Delays == 0 .. MaxDelay
Args == 1 .. MaxArg
\* Date.now() when the program starts: far larger than any delay.
Epoch == MaxDelay + 1

\* ------------------------------------------------------------- constants
NoTimer == 0            \* an unassigned timer variable / ref (undefined)
Undefined == 0 - 1      \* JavaScript undefined in a numeric slot

WrapperPrims == {"debounce", "debouncePress", "throttle"}
DebouncePrims == {"debounce", "debouncePress"}
HookPrims == {"useDebounced", "useInterval", "useDelay", "useTimeout", "useModal"}
Prims == WrapperPrims \cup HookPrims

VARIABLES
  prim,          \* which primitive this behaviour follows
  phase,         \* "init" (not rendered yet), "mounted", "unmounted"
  now,           \* Date.now()
  timers,        \* the host's timer queue: the live (armed, not fired, not cleared) timers
  nextId,        \* the handle the next setTimeout / setInterval returns
  timer,         \* the primitive's handle slot: timer / timerId / timerIdRef.current / tick
  result,        \* debounce, debouncePress, throttle: the cached last result
  last,          \* throttle: time of the last execution
  lastArgs,      \* debouncePress: arguments of the last call
  lastCallTime,  \* debouncePress: time of the last call
  wait,          \* debounce, debouncePress: the wait argument
  delay,         \* throttle: the delay argument; hooks: delay / duration of the latest render
  deps,          \* useDebounced: deps of the latest render
  renders,       \* number of renders so far; the callback of render k is callback k
  savedCallback, \* hooks: savedCallback.current / callbackRef.current;
                 \* wrappers: the callback the wrapper closed over, named by its render
  delayRef,      \* useDelay: delayRef.current
  calls,         \* history: the calls made, in order
  execs,         \* history: the executions of fn / of the hook's callback, in order
  torn,          \* history: the timers that were live when the component was torn down
  func,          \* wrappers: typeof of the func argument
  thrown,        \* wrappers: where a TypeError was last thrown ("none" if nowhere)
  prev,          \* stateChanged: the prev argument
  current,       \* stateChanged: the current argument
  changes,       \* stateChanged: the returned patch
  again,         \* stateChanged: the patch a second evaluation on the same pair returns
  skew,          \* how far Date.now() is behind the timers' clock (0: in step)
  faulty,        \* wrappers: the arguments on which fn throws
  passedWait,    \* useDebounce / useThrottle: the wait passed at the latest render
  renderedAt,    \* useDebounce / useThrottle: calls made before the latest render
  value,         \* App: the state `value`
  debounced,     \* App: the state `debounced`
  post,          \* App: the state `post`, by the posts' titles
  targetIdx,     \* App: the state `targetIdx` (0-based, as in the source)
  modalFlag,     \* App: the state `modalFlag`
  newTitle,      \* App: the state `newTitle`
  loading,       \* useRequest: the state `loading`
  data,          \* useRequest: the state `data`, a response by its request's number
  error,         \* useRequest: the state `error`, an Error by its request's number
  pending,       \* useRequest: the requests awaiting promiseCreator's promise
  settled        \* useRequest: the requests settled so far, in order, and how

vars == <<prim, phase, now, timers, nextId, timer, result, last, lastArgs,
          lastCallTime, wait, delay, deps, renders, savedCallback, delayRef,
          calls, execs, torn,
         func, thrown, prev, current, changes, again,
          skew,
          faulty,
          passedWait, renderedAt,
          value, debounced,
          post, targetIdx, modalFlag, newTitle,
          loading, data, error, pending, settled>>

wrapVars == <<func, thrown>>

diffVars == <<prev, current, changes, again>>

\* The state of useRequest.
requestVars == <<loading, data, error, pending, settled>>

\* useRequest before any request: useState(true), useState(null), useState(null).
RequestIdle == loading = TRUE /\ data = 0 /\ error = 0 /\ pending = {} /\ settled = <<>>

\* The App component's post list.
postVars == <<post, targetIdx, modalFlag, newTitle>>

\* No post list is rendered.
PostIdle == post = <<>> /\ targetIdx = 0 /\ modalFlag = FALSE /\ newTitle = 0

\* The App component's debounced counter.
appVars == <<value, debounced>>

\* useState(0), twice.
AppIdle == value = 0 /\ debounced = 0

\* What the component passes to useDebounce / useThrottle.
propVars == <<passedWait, renderedAt>>

\* The wrapper is used outside a component.
PropsIdle == passedWait = Undefined /\ renderedAt = 0

\* What fn does.
faultVars == <<faulty>>

\* fn returns on every argument.
NeverThrows == faulty = {}

\* The wall clock.
clockVars == <<skew>>

\* Date.now() has never been set back.
ClockInStep == skew = 0

\* Date.now(): the wall clock, which can be set back; timers run on `now`.
DateNow == now - skew

\* ------------------------------------------------------ host timer queue
\* fn: an opaque function of its argument (its results tell the arguments apart).
Func(a) == a + 10

\* ------------------------------------------------------ Structured Records
\* A JavaScript value of the diff: k is its kind, n the number of a primitive,
\* kids the fields of a record (in the order of Keys) or the elements of an array.
\* Missing is undefined: an absent key, an array hole, a variable never assigned.
Missing == [k |-> "undef", n |-> 0, kids |-> <<>>]

\* No diff is under way.
DiffIdle == prev = Missing /\ current = Missing /\ changes = Missing /\ again = Missing

\* The keys a record can have; a record's kids[i] is its value under Keys[i].
Keys == <<"a", "b">>

KeyIx == 1 .. Len(Keys)

Prim(i) == [k |-> "prim", n |-> i, kids |-> <<>>]

Rec(a, b) == [k |-> "rec", n |-> 0, kids |-> <<a, b>>]

Arr(items) == [k |-> "arr", n |-> 0, kids |-> items]

\* null
Null == [k |-> "null", n |-> 0, kids |-> <<>>]

\* {}
Empty == Rec(Missing, Missing)

\* Array.isArray(v)
isArray(v) == v.k = "arr"

\* isObject(obj): obj !== null && typeof obj === "object" && !Array.isArray(obj)
isObject(obj) == obj.k = "rec"

\* Faulty variant of HasKeys: a patch counts as non-empty whatever it holds.
HasKeys_always(obj) == obj = obj

\* Object.keys(obj).length > 0
HasKeys(obj) == \E i \in KeyIx : obj.kids[i] # Missing

\* The length of a JavaScript array whose assigned indices hold items[i] # Missing:
\* the last assigned index.  The array itself, cut to that length.
Assigned(items) ==
  LET idx == {i \in 1 .. Len(items) : items[i] # Missing}
  IN IF idx = {} THEN <<>>
     ELSE SubSeq(items, 1, CHOOSE i \in idx : \A j \in idx : j <= i)

RECURSIVE stateChanged(_, _)

\* Faulty variant of arrayItem: elements that are not both records count as
\* changed only if both are primitives.
arrayItem_primitivesOnly(prevItem, currentItem) ==
  IF isObject(prevItem) /\ isObject(currentItem)
    THEN LET itemChanges == stateChanged(prevItem, currentItem)
         IN IF HasKeys(itemChanges) THEN itemChanges ELSE Missing
    ELSE IF prevItem.k = "prim" /\ currentItem.k = "prim" /\ prevItem # currentItem
           THEN currentItem
           ELSE prevItem

\* One turn of prevValue.forEach: what is assigned to arrayChanges[index], Missing
\* when nothing is.  `!==` is equality of values here: it is never applied to two
\* arrays or two records (no input holds an array facing an array at an index).
arrayItem(prevItem, currentItem) ==
  IF isObject(prevItem) /\ isObject(currentItem)
    THEN LET itemChanges == stateChanged(prevItem, currentItem)
         IN IF HasKeys(itemChanges) THEN itemChanges ELSE Missing
    ELSE IF prevItem # currentItem THEN currentItem ELSE prevItem

\* Faulty variant of keyChange: arrays are compared index by index, over the
\* indices of prevValue, whatever their lengths.
keyChange_noLengthTest(prevValue, currentValue) ==
  IF currentValue = Missing THEN Missing
  ELSE IF isArray(prevValue) /\ isArray(currentValue)
    THEN LET arrayChanges ==
               Assigned([index \in 1 .. Len(prevValue.kids) |->
                           arrayItem(prevValue.kids[index],
                                     IF index <= Len(currentValue.kids)
                                       THEN currentValue.kids[index]
                                       ELSE Missing)])
         IN IF Len(arrayChanges) > 0 THEN Arr(arrayChanges) ELSE Missing
  ELSE IF isObject(prevValue) /\ isObject(currentValue)
    THEN LET nestedChanges == stateChanged(prevValue, currentValue)
         IN IF HasKeys(nestedChanges) THEN nestedChanges ELSE Missing
  ELSE IF currentValue # prevValue THEN currentValue ELSE Missing

\* The body of forEach over Object.keys(current) for one key: what is assigned to
\* changes[key], Missing when nothing is (or when current has no such key).
keyChange(prevValue, currentValue) ==
  IF currentValue = Missing THEN Missing
  ELSE IF isArray(prevValue) /\ isArray(currentValue)
    THEN IF Len(prevValue.kids) # Len(currentValue.kids)
           THEN currentValue
           ELSE LET arrayChanges ==
                      Assigned([index \in 1 .. Len(prevValue.kids) |->
                                  arrayItem(prevValue.kids[index],
                                            currentValue.kids[index])])
                IN IF Len(arrayChanges) > 0 THEN Arr(arrayChanges) ELSE Missing
  ELSE IF isObject(prevValue) /\ isObject(currentValue)
    THEN LET nestedChanges == stateChanged(prevValue, currentValue)
         IN IF HasKeys(nestedChanges) THEN nestedChanges ELSE Missing
  ELSE IF currentValue # prevValue THEN currentValue ELSE Missing

\* Faulty variant of stateChanged: the keys of prev are walked too, and a key that
\* current lacks is reported with prev's value.
stateChanged_prevKeys(p, c) ==
  Rec(IF c.kids[1] = Missing THEN p.kids[1] ELSE keyChange(p.kids[1], c.kids[1]),
      IF c.kids[2] = Missing THEN p.kids[2] ELSE keyChange(p.kids[2], c.kids[2]))

\* stateChanged(prev, current), on two records.
stateChanged(p, c) == Rec(keyChange(p.kids[1], c.kids[1]), keyChange(p.kids[2], c.kids[2]))

\* The Structured Records the diff is run on.  `!==` only tells equal primitives
\* from unequal ones, so two primitives are enough.
MaxRequests == 3 \* useRequest: calls of onRequest
MaxPosts == 5   \* App: posts in the list (it starts with 4)
MaxEdits == 3   \* App: clicks on +1 / -1
MaxLen == 2     \* arrays have 0 .. MaxLen elements

Numbers == {Prim(1), Prim(2)}

Optional(S) == {Missing} \cup S

\* Records of primitives; the records that are array elements.
Leaves == {Rec(a, b) : a \in Optional(Numbers), b \in Optional(Numbers)}

Items == Numbers \cup {Rec(a, Missing) : a \in Numbers}

Arrays == UNION {{Arr(s) : s \in [1 .. n -> Items]} : n \in 0 .. MaxLen}

\* Records holding a record; the records handed to stateChanged.
Inner == {Rec(a, b) : a \in Optional(Numbers), b \in Optional(Numbers \cup Leaves)}

Records ==
  {Rec(a, b) : a \in Optional(Numbers), b \in Optional(Numbers \cup Inner \cup Arrays)}

\* Records whose values are of every kind: one value of each kind, at a key or as
\* an element of an array.
OfEachKind == {Prim(1), Null, Rec(Prim(1), Missing), Arr(<<Prim(1)>>)}

MixedArrays == UNION {{Arr(s) : s \in [1 .. n -> OfEachKind]} : n \in 0 .. MaxLen}

MixedRecords ==
  {Rec(a, b) : a \in Optional({Prim(1)}), b \in Optional(OfEachKind \cup MixedArrays)}

\* No array of c faces an array of p at the same index of two arrays of equal
\* length: there `!==` would compare references.
NoArrayFacesArray(p, c) ==
  \A i \in KeyIx :
    (/\ isArray(p.kids[i])
     /\ isArray(c.kids[i])
     /\ Len(p.kids[i].kids) = Len(c.kids[i].kids))
      => \A j \in 1 .. Len(p.kids[i].kids) :
           ~(isArray(p.kids[i].kids[j]) /\ isArray(c.kids[i].kids[j]))

\* setTimeout(cb, d) / setInterval(cb, d) on queue q: the callback is named by the
\* primitive; p is the argument the closure captured, ev the interval period
\* (0 for a one-shot timer); seen, born and cb are history (executions so far and
\* the time when armed, the callback the hook's ref held when the arming step began).
setTimeout(q, d, p, ev) ==
  q \cup {[id |-> nextId, due |-> now + d, param |-> p, every |-> ev,
           seen |-> Len(execs), born |-> now, cb |-> savedCallback]}

\* clearTimeout(h) / clearInterval(h): a handle that is no longer live is ignored.
clearTimeout(q, h) == {tm \in q : tm.id # h}

\* `timer && clearTimeout(timer)`
clearIfSet(q, h) == IF h # NoTimer THEN clearTimeout(q, h) ELSE q

Live(h) == \E tm \in timers : tm.id = h

Due(tm) == tm.due <= now

\* history records
CallRec(a, r, s) ==
  [t |-> now, arg |-> a, ret |-> r, sync |-> s, hadTimer |-> Live(timer),
   nExec |-> Len(execs), threw |-> s /\ a \in faulty]

ExecRec(a, src, n) ==
  [t |-> now, arg |-> a, src |-> src, nCalls |-> n, live |-> phase = "mounted",
   cb |-> savedCallback, threw |-> a \in faulty]

CanCall == phase = "mounted" /\ Len(calls) < MaxCalls

\* -------------------------------------------------------------- debounce
\* Faulty variant of debounce: a call made while a timer is pending leaves that timer (and
\* the arguments it captured) in place instead of replacing it.
debounce_keepsFirst(a) ==
  /\ prim = "debounce"
  /\ CanCall
  /\ IF Live(timer)
       THEN UNCHANGED <<timers, timer, nextId>>
       ELSE /\ timers' = setTimeout(timers, wait, a, 0)
            /\ timer' = nextId
            /\ nextId' = nextId + 1
  /\ calls' = Append(calls, CallRec(a, result, FALSE))
  /\ UNCHANGED <<requestVars, postVars, appVars, propVars, faultVars, clockVars, wrapVars, diffVars, prim, phase, now, result, last, lastArgs, lastCallTime, wait,
                 delay, deps, renders, savedCallback, delayRef, execs, torn>>

\* Faulty variant of debounce: the pending timer is not cleared before the new one is armed.
debounce_noClear(a) ==
  /\ prim = "debounce"
  /\ CanCall
  /\ timers' = setTimeout(timers, wait, a, 0)
  /\ timer' = nextId
  /\ nextId' = nextId + 1
  /\ calls' = Append(calls, CallRec(a, result, FALSE))
  /\ UNCHANGED <<requestVars, postVars, appVars, propVars, faultVars, clockVars, wrapVars, diffVars, prim, phase, now, result, last, lastArgs, lastCallTime, wait,
                 delay, deps, renders, savedCallback, delayRef, execs, torn>>

\* Faulty variant of debounce: leading edge, a call made while no timer is pending runs
\* func at once.
debounce_leading(a) ==
  /\ prim = "debounce"
  /\ CanCall
  /\ timers' = setTimeout(clearIfSet(timers, timer), wait, a, 0)
  /\ timer' = nextId
  /\ nextId' = nextId + 1
  /\ IF Live(timer)
       THEN /\ calls' = Append(calls, CallRec(a, result, FALSE))
            /\ UNCHANGED <<result, execs>>
       ELSE /\ result' = Func(a)
            /\ execs' = Append(execs, ExecRec(a, "call", Len(calls) + 1))
            /\ calls' = Append(calls, CallRec(a, Func(a), TRUE))
  /\ UNCHANGED <<requestVars, postVars, appVars, propVars, faultVars, clockVars, wrapVars, diffVars, prim, phase, now, last, lastArgs, lastCallTime, wait, delay, deps,
                 renders, savedCallback, delayRef, torn>>

\* A call of the wrapper returned by debounce(func, wait).
debounce(a) ==
  /\ prim = "debounce"
  /\ CanCall
  /\ timers' = setTimeout(clearIfSet(timers, timer), wait, a, 0)
  /\ timer' = nextId
  /\ nextId' = nextId + 1
  /\ calls' = Append(calls, CallRec(a, result, FALSE))
  /\ UNCHANGED <<requestVars, postVars, appVars, propVars, faultVars, clockVars, wrapVars, diffVars, prim, phase, now, result, last, lastArgs, lastCallTime, wait,
                 delay, deps, renders, savedCallback, delayRef, execs, torn>>

\* The timer callback of debounce: result = func(...param).
debounceFire(tm) ==
  /\ prim = "debounce"
  /\ Due(tm)
  /\ timers' = timers \ {tm}
  /\ result' = Func(tm.param)
  /\ execs' = Append(execs, ExecRec(tm.param, "timer", Len(calls)))
  /\ UNCHANGED <<requestVars, postVars, appVars, propVars, faultVars, clockVars, wrapVars, diffVars, prim, phase, now, nextId, timer, last, lastArgs, lastCallTime,
                 wait, delay, deps, renders, savedCallback, delayRef, calls, torn>>

\* --------------------------------------------------------- debouncePress
\* `x || 0`
OrZero(x) == IF x = Undefined THEN 0 ELSE x

shouldInvoke(time) ==
  LET timeSinceLastCall == time - OrZero(lastCallTime)
  IN \/ lastCallTime = Undefined
     \/ timeSinceLastCall >= wait
     \/ timeSinceLastCall < 0

\* A call of the wrapper returned by debouncePress(func, wait).  Both branches of
\* the source arm a timer of `wait` exactly when timerId is undefined.
debouncePress(a) ==
  /\ prim = "debouncePress"
  /\ CanCall
  /\ lastArgs' = a
  /\ lastCallTime' = DateNow
  /\ IF timer = NoTimer
       THEN /\ timers' = setTimeout(timers, wait, 0, 0)
            /\ timer' = nextId
            /\ nextId' = nextId + 1
       ELSE UNCHANGED <<timers, timer, nextId>>
  /\ calls' = Append(calls, CallRec(a, result, FALSE))
  /\ UNCHANGED <<requestVars, postVars, appVars, propVars, faultVars, clockVars, wrapVars, diffVars, prim, phase, now, result, last, wait, delay, deps, renders,
                 savedCallback, delayRef, execs, torn>>

\* Faulty variant of timerExpired: func is invoked without asking shouldInvoke.
timerExpired_noCheck(tm) ==
  /\ prim = "debouncePress"
  /\ Due(tm)
  /\ timer' = NoTimer
  /\ timers' = timers \ {tm}
  /\ lastArgs' = Undefined
  /\ IF lastArgs # Undefined
       THEN /\ result' = Func(lastArgs)
            /\ execs' = Append(execs, ExecRec(lastArgs, "timer", Len(calls)))
       ELSE UNCHANGED <<result, execs>>
  /\ UNCHANGED <<requestVars, postVars, appVars, propVars, faultVars, clockVars, wrapVars, diffVars, prim, phase, now, nextId, last, lastCallTime, wait, delay, deps,
                 renders, savedCallback, delayRef, calls, torn>>

\* The timer callback of debouncePress.
timerExpired(tm) ==
  /\ prim = "debouncePress"
  /\ Due(tm)
  /\ IF shouldInvoke(DateNow)
       THEN /\ timer' = NoTimer
            /\ timers' = timers \ {tm}
            /\ lastArgs' = Undefined
            /\ IF lastArgs # Undefined
                 THEN /\ result' = Func(lastArgs)
                      /\ execs' = Append(execs, ExecRec(lastArgs, "timer", Len(calls)))
                 ELSE UNCHANGED <<result, execs>>
            /\ UNCHANGED nextId
       ELSE /\ timers' = setTimeout(timers \ {tm},
                                    wait - (DateNow - OrZero(lastCallTime)),
                                    0, 0)
            /\ timer' = nextId
            /\ nextId' = nextId + 1
            /\ UNCHANGED <<lastArgs, result, execs>>
  /\ UNCHANGED <<requestVars, postVars, appVars, propVars, faultVars, clockVars, wrapVars, diffVars, prim, phase, now, last, lastCallTime, wait, delay, deps, renders,
                 savedCallback, delayRef, calls, torn>>

\* -------------------------------------------------------------- throttle
\* Faulty variant of throttle: `wait < 0` in place of `wait <= 0`, so that a call made
\* exactly delay ms after the last execution is deferred.
throttle_strict(a) ==
  /\ prim = "throttle"
  /\ CanCall
  /\ LET remaining == delay - (DateNow - last)
     IN IF remaining < 0
          THEN /\ last' = DateNow
               /\ result' = Func(a)
               /\ execs' = Append(execs, ExecRec(a, "call", Len(calls) + 1))
               /\ timers' = clearIfSet(timers, timer)
               /\ calls' = Append(calls, CallRec(a, Func(a), TRUE))
               /\ UNCHANGED <<timer, nextId>>
          ELSE /\ IF timer = NoTimer
                    THEN /\ timers' = setTimeout(timers, remaining, a, 0)
                         /\ timer' = nextId
                         /\ nextId' = nextId + 1
                    ELSE UNCHANGED <<timers, timer, nextId>>
               /\ calls' = Append(calls, CallRec(a, result, FALSE))
               /\ UNCHANGED <<last, result, execs>>
  /\ UNCHANGED <<requestVars, postVars, appVars, propVars, faultVars, clockVars, wrapVars, diffVars, prim, phase, now, lastArgs, lastCallTime, wait, delay, deps,
                 renders, savedCallback, delayRef, torn>>

\* Faulty variant of throttle: the immediate branch does not clear the pending timer.
throttle_noClear(a) ==
  /\ prim = "throttle"
  /\ CanCall
  /\ LET remaining == delay - (DateNow - last)
     IN IF remaining <= 0
          THEN /\ last' = DateNow
               /\ result' = Func(a)
               /\ execs' = Append(execs, ExecRec(a, "call", Len(calls) + 1))
               /\ calls' = Append(calls, CallRec(a, Func(a), TRUE))
               /\ UNCHANGED <<timers, timer, nextId>>
          ELSE /\ IF timer = NoTimer
                    THEN /\ timers' = setTimeout(timers, remaining, a, 0)
                         /\ timer' = nextId
                         /\ nextId' = nextId + 1
                    ELSE UNCHANGED <<timers, timer, nextId>>
               /\ calls' = Append(calls, CallRec(a, result, FALSE))
               /\ UNCHANGED <<last, result, execs>>
  /\ UNCHANGED <<requestVars, postVars, appVars, propVars, faultVars, clockVars, wrapVars, diffVars, prim, phase, now, lastArgs, lastCallTime, wait, delay, deps,
                 renders, savedCallback, delayRef, torn>>

\* A call of the wrapper returned by throttle(func, delay).
throttle(a) ==
  /\ prim = "throttle"
  /\ CanCall
  /\ LET remaining == delay - (DateNow - last)
     IN IF remaining <= 0
          THEN /\ last' = DateNow
               /\ result' = Func(a)
               /\ execs' = Append(execs, ExecRec(a, "call", Len(calls) + 1))
               /\ timers' = clearIfSet(timers, timer)
               /\ calls' = Append(calls, CallRec(a, Func(a), TRUE))
               /\ UNCHANGED <<timer, nextId>>
          ELSE /\ IF timer = NoTimer
                    THEN /\ timers' = setTimeout(timers, remaining, a, 0)
                         /\ timer' = nextId
                         /\ nextId' = nextId + 1
                    ELSE UNCHANGED <<timers, timer, nextId>>
               /\ calls' = Append(calls, CallRec(a, result, FALSE))
               /\ UNCHANGED <<last, result, execs>>
  /\ UNCHANGED <<requestVars, postVars, appVars, propVars, faultVars, clockVars, wrapVars, diffVars, prim, phase, now, lastArgs, lastCallTime, wait, delay, deps,
                 renders, savedCallback, delayRef, torn>>

\* The timer callback of throttle: last = Date.now(); result = func(...param).
throttleFire(tm) ==
  /\ prim = "throttle"
  /\ Due(tm)
  /\ timers' = timers \ {tm}
  /\ last' = DateNow
  /\ result' = Func(tm.param)
  /\ execs' = Append(execs, ExecRec(tm.param, "timer", Len(calls)))
  /\ UNCHANGED <<requestVars, postVars, appVars, propVars, faultVars, clockVars, wrapVars, diffVars, prim, phase, now, nextId, timer, lastArgs, lastCallTime, wait,
                 delay, deps, renders, savedCallback, delayRef, calls, torn>>

\* ------------------------------------------- useDebounce and useThrottle
\* The wrapper is made once, by useRef(debounce(callback, wait)) at the first
\* render; a later render makes a wrapper that useRef discards.  Neither hook
\* registers an effect, so neither has a cleanup.
useDebounce ==
  /\ prim = "debounce"
  /\ phase = "mounted"
  /\ renders < MaxRenders
  /\ renders' = renders + 1
  /\ UNCHANGED <<requestVars, postVars, appVars, propVars, faultVars, clockVars, wrapVars, diffVars, prim, phase, now, timers, nextId, timer, result, last, lastArgs,
                 lastCallTime, wait, delay, deps, savedCallback, delayRef, calls,
                 execs, torn>>

useThrottle ==
  /\ prim = "throttle"
  /\ phase = "mounted"
  /\ renders < MaxRenders
  /\ renders' = renders + 1
  /\ UNCHANGED <<requestVars, postVars, appVars, propVars, faultVars, clockVars, wrapVars, diffVars, prim, phase, now, timers, nextId, timer, result, last, lastArgs,
                 lastCallTime, wait, delay, deps, savedCallback, delayRef, calls,
                 execs, torn>>

\* ----------------------------------------------------------- timer hooks
\* A render of the component that owns the hook, followed by the effects React
\* runs for it: at the first render every effect, later only those whose
\* dependencies changed, each after the cleanup of its previous run.  The
\* callback is a new closure at every render.
CanRender == phase \in {"init", "mounted"} /\ renders < MaxRenders

First == phase = "init"

\* useDebounced(callback, d, k)
useDebounced(d, k) ==
  /\ prim = "useDebounced"
  /\ CanRender
  /\ savedCallback' = renders + 1
  /\ IF First \/ d # delay \/ k # deps
       THEN /\ timers' = setTimeout(IF First THEN timers ELSE clearTimeout(timers, timer),
                                    d, 0, 0)
            /\ timer' = nextId
            /\ nextId' = nextId + 1
       ELSE UNCHANGED <<timers, timer, nextId>>
  /\ delay' = d
  /\ deps' = k
  /\ renders' = renders + 1
  /\ phase' = "mounted"
  /\ UNCHANGED <<requestVars, postVars, appVars, propVars, faultVars, clockVars, wrapVars, diffVars, prim, now, result, last, lastArgs, lastCallTime, wait, delayRef,
                 calls, execs, torn>>

\* useInterval(callback, d)
useInterval(d) ==
  /\ prim = "useInterval"
  /\ CanRender
  /\ savedCallback' = renders + 1
  /\ IF First \/ d # delay
       THEN /\ timers' = setTimeout(IF First THEN timers ELSE clearTimeout(timers, timer),
                                    d, 0, d)
            /\ timer' = nextId
            /\ nextId' = nextId + 1
       ELSE UNCHANGED <<timers, timer, nextId>>
  /\ delay' = d
  /\ renders' = renders + 1
  /\ phase' = "mounted"
  /\ UNCHANGED <<requestVars, postVars, appVars, propVars, faultVars, clockVars, wrapVars, diffVars, prim, now, result, last, lastArgs, lastCallTime, wait, deps,
                 delayRef, calls, execs, torn>>

\* Faulty variant of useDelay: the effect that stores the callback runs only after
\* the first render, so the ref keeps the first render's callback.
useDelay_staleCallback(d) ==
  /\ prim = "useDelay"
  /\ CanRender
  /\ savedCallback' = IF First THEN renders + 1 ELSE savedCallback
  /\ delayRef' = d
  /\ delay' = d
  /\ renders' = renders + 1
  /\ phase' = "mounted"
  /\ UNCHANGED <<requestVars, postVars, appVars, propVars, faultVars, clockVars, wrapVars, diffVars, prim, now, timers, nextId, timer, result, last, lastArgs,
                 lastCallTime, wait, deps, calls, execs, torn>>

\* useDelay(callback, d): the effects only store callback and delay in the refs.
useDelay(d) ==
  /\ prim = "useDelay"
  /\ CanRender
  /\ savedCallback' = renders + 1
  /\ delayRef' = d
  /\ delay' = d
  /\ renders' = renders + 1
  /\ phase' = "mounted"
  /\ UNCHANGED <<requestVars, postVars, appVars, propVars, faultVars, clockVars, wrapVars, diffVars, prim, now, timers, nextId, timer, result, last, lastArgs,
                 lastCallTime, wait, deps, calls, execs, torn>>

\* Faulty variant of useDelayTrigger: the timer of the previous invocation is not
\* cleared.
useDelayTrigger_noClear ==
  /\ prim = "useDelay"
  /\ CanCall
  /\ timers' = setTimeout(timers, OrZero(delayRef), 0, 0)
  /\ timer' = nextId
  /\ nextId' = nextId + 1
  /\ calls' = Append(calls, CallRec(0, Undefined, FALSE))
  /\ UNCHANGED <<requestVars, postVars, appVars, propVars, faultVars, clockVars, wrapVars, diffVars, prim, phase, now, result, last, lastArgs, lastCallTime, wait,
                 delay, deps, renders, savedCallback, delayRef, execs, torn>>

\* The function useDelay returns (the trigger).
useDelayTrigger ==
  /\ prim = "useDelay"
  /\ CanCall
  /\ timers' = setTimeout(clearIfSet(timers, timer), OrZero(delayRef), 0, 0)
  /\ timer' = nextId
  /\ nextId' = nextId + 1
  /\ calls' = Append(calls, CallRec(0, Undefined, FALSE))
  /\ UNCHANGED <<requestVars, postVars, appVars, propVars, faultVars, clockVars, wrapVars, diffVars, prim, phase, now, result, last, lastArgs, lastCallTime, wait,
                 delay, deps, renders, savedCallback, delayRef, execs, torn>>

\* Faulty variant of useTimeout: the timer effect has no dependency list, so it
\* runs (cleanup, then re-arm) after every render.
useTimeout_everyRender(d) ==
  /\ prim = "useTimeout"
  /\ CanRender
  /\ savedCallback' = renders + 1
  /\ timers' = setTimeout(clearIfSet(clearIfSet(timers, timer), timer), d, 0, 0)
  /\ timer' = nextId
  /\ nextId' = nextId + 1
  /\ delay' = d
  /\ renders' = renders + 1
  /\ phase' = "mounted"
  /\ UNCHANGED <<requestVars, postVars, appVars, propVars, faultVars, clockVars, wrapVars, diffVars, prim, now, result, last, lastArgs, lastCallTime, wait, deps,
                 delayRef, calls, execs, torn>>

\* useTimeout(callback, d): the cleanup and the effect both clear timerIdRef.current.
useTimeout(d) ==
  /\ prim = "useTimeout"
  /\ CanRender
  /\ savedCallback' = renders + 1
  /\ IF First \/ d # delay
       THEN /\ timers' = setTimeout(clearIfSet(clearIfSet(timers, timer), timer), d, 0, 0)
            /\ timer' = nextId
            /\ nextId' = nextId + 1
       ELSE UNCHANGED <<timers, timer, nextId>>
  /\ delay' = d
  /\ renders' = renders + 1
  /\ phase' = "mounted"
  /\ UNCHANGED <<requestVars, postVars, appVars, propVars, faultVars, clockVars, wrapVars, diffVars, prim, now, result, last, lastArgs, lastCallTime, wait, deps,
                 delayRef, calls, execs, torn>>

\* useModal(d, setVisible): setVisible is the state setter, the same at every render.
useModal(d) ==
  /\ prim = "useModal"
  /\ CanRender
  /\ IF First \/ d # delay
       THEN /\ timers' = setTimeout(IF First THEN timers ELSE clearTimeout(timers, timer),
                                    d, 0, 0)
            /\ timer' = nextId
            /\ nextId' = nextId + 1
       ELSE UNCHANGED <<timers, timer, nextId>>
  /\ delay' = d
  /\ renders' = renders + 1
  /\ phase' = "mounted"
  /\ UNCHANGED <<requestVars, postVars, appVars, propVars, faultVars, clockVars, wrapVars, diffVars, prim, now, result, last, lastArgs, lastCallTime, wait, deps,
                 savedCallback, delayRef, calls, execs, torn>>

\* The timer callback of a hook: `savedCallback.current && savedCallback.current()`
\* (useModal: setVisible(false)).  An interval timer stays armed for its next period.
hookFire(tm) ==
  /\ prim \in HookPrims
  /\ Due(tm)
  /\ timers' = IF tm.every > 0
                 THEN (timers \ {tm}) \cup {[tm EXCEPT !.due = tm.due + tm.every]}
                 ELSE timers \ {tm}
  /\ execs' = IF prim = "useModal" \/ savedCallback # NoTimer
                THEN Append(execs, [ExecRec(savedCallback, "timer", Len(calls))
                                      EXCEPT !.cb = tm.cb])
                ELSE execs
  /\ UNCHANGED <<requestVars, postVars, appVars, propVars, faultVars, clockVars, wrapVars, diffVars, prim, phase, now, nextId, timer, result, last, lastArgs,
                 lastCallTime, wait, delay, deps, renders, savedCallback, delayRef,
                 calls, torn>>

\* Faulty variant of cleanup: the hooks that keep their handle in a ref (useDelay,
\* useTimeout) return no cleanup.
cleanup_refsForgotten(q) ==
  CASE prim \in {"useDebounced", "useInterval", "useModal"} -> clearTimeout(q, timer)
    [] OTHER -> q

\* The effects' cleanups, run when the owning component is torn down.
cleanup(q) ==
  CASE prim \in {"useDebounced", "useInterval", "useModal"} -> clearTimeout(q, timer)
    [] prim \in {"useDelay", "useTimeout"} -> clearIfSet(q, timer)
    [] OTHER -> q

Unmount ==
  /\ prim # "debouncePress"
  /\ phase = "mounted"
  /\ phase' = "unmounted"
  /\ timers' = cleanup(timers)
  /\ torn' = timers
  /\ UNCHANGED <<requestVars, postVars, appVars, propVars, faultVars, clockVars, wrapVars, diffVars, prim, now, nextId, timer, result, last, lastArgs, lastCallTime,
                 wait, delay, deps, renders, savedCallback, delayRef, calls, execs>>

\* ------------------------------------------------------------- the clock
Tick ==
  /\ phase # "init"
  /\ now < Epoch + MaxTime
  /\ \A tm \in timers : ~Due(tm)
  /\ now' = now + 1
  /\ UNCHANGED <<requestVars, postVars, appVars, propVars, faultVars, clockVars, wrapVars, diffVars, prim, phase, timers, nextId, timer, result, last, lastArgs,
                 lastCallTime, wait, delay, deps, renders, savedCallback, delayRef,
                 calls, execs, torn>>

\* ------------------------------------------------------------ clock skew
\* The primitives that read Date.now().
SkewPrims == {"throttle", "debouncePress"}

\* The wall clock is set back (by the user, by a time synchronisation): Date.now()
\* falls behind by k more; the timers' clock is not touched.
Skew ==
  /\ prim \in SkewPrims
  /\ phase = "mounted"
  /\ \E k \in 1 .. MaxDelay :
       /\ skew + k <= MaxDelay
       /\ skew' = skew + k
  /\ UNCHANGED <<requestVars, postVars, appVars, propVars, faultVars, wrapVars, diffVars, prim, phase, now, timers, nextId, timer, result,
                 last, lastArgs, lastCallTime, wait, delay, deps, renders,
                 savedCallback, delayRef, calls, execs, torn>>

\* --------------------------------------------------------- fn that throws
\* The timer callback of debounce when fn throws on the captured arguments:
\* `result = func(...param)` is left by the exception before result is assigned.
debounceFireRaises(tm) ==
  /\ prim = "debounce"
  /\ tm.param \in faulty
  /\ Due(tm)
  /\ timers' = timers \ {tm}
  /\ execs' = Append(execs, ExecRec(tm.param, "timer", Len(calls)))
  /\ thrown' = "timer"
  /\ UNCHANGED <<requestVars, postVars, appVars, propVars, clockVars, faultVars, diffVars, prim, func, phase, now, nextId,
                 timer, result, last, lastArgs, lastCallTime, wait, delay, deps,
                 renders, savedCallback, delayRef, calls, torn>>

\* The timer callback of debouncePress when it invokes fn and fn throws: timerId
\* and lastArgs are reset before `result = func.apply(undefined, args)`.
timerExpiredRaises(tm) ==
  /\ prim = "debouncePress"
  /\ Due(tm)
  /\ shouldInvoke(DateNow)
  /\ lastArgs \in faulty
  /\ timer' = NoTimer
  /\ timers' = timers \ {tm}
  /\ lastArgs' = Undefined
  /\ execs' = Append(execs, ExecRec(lastArgs, "timer", Len(calls)))
  /\ thrown' = "timer"
  /\ UNCHANGED <<requestVars, postVars, appVars, propVars, clockVars, faultVars, diffVars, prim, func, phase, now, nextId,
                 result, last, lastCallTime, wait, delay, deps, renders,
                 savedCallback, delayRef, calls, torn>>

\* A call of the throttle wrapper that runs fn at once, when fn throws: last = now
\* is assigned, `result = func(...param)` is left by the exception, and neither
\* `timer && clearTimeout(timer)` nor `return result` is reached.
throttleRaises(a) ==
  /\ prim = "throttle"
  /\ CanCall
  /\ a \in faulty
  /\ delay - (DateNow - last) <= 0
  /\ last' = DateNow
  /\ execs' = Append(execs, ExecRec(a, "call", Len(calls) + 1))
  /\ calls' = Append(calls, CallRec(a, Undefined, TRUE))
  /\ thrown' = "call"
  /\ UNCHANGED <<requestVars, postVars, appVars, propVars, clockVars, faultVars, diffVars, prim, func, phase, now, timers,
                 nextId, timer, result, lastArgs, lastCallTime, wait, delay, deps,
                 renders, savedCallback, delayRef, torn>>

\* The timer callback of throttle when fn throws on the captured arguments:
\* last = Date.now(), then `result = func(...param)` is left by the exception.
throttleFireRaises(tm) ==
  /\ prim = "throttle"
  /\ tm.param \in faulty
  /\ Due(tm)
  /\ timers' = timers \ {tm}
  /\ last' = DateNow
  /\ execs' = Append(execs, ExecRec(tm.param, "timer", Len(calls)))
  /\ thrown' = "timer"
  /\ UNCHANGED <<requestVars, postVars, appVars, propVars, clockVars, faultVars, diffVars, prim, func, phase, now, nextId,
                 timer, result, lastArgs, lastCallTime, wait, delay, deps, renders,
                 savedCallback, delayRef, calls, torn>>

\* ------------------------------------- re-rendering useDebounce / useThrottle
\* The wait the wrapper closed over.
Waited == IF prim = "throttle" THEN delay ELSE wait

\* Faulty variant of useDebounceWith: the ref takes the wrapper made at this render.
useDebounceWith_rewrap(w) ==
  /\ prim = "debounce"
  /\ phase = "mounted"
  /\ renders < MaxRenders
  /\ renders' = renders + 1
  /\ passedWait' = w
  /\ renderedAt' = Len(calls)
  /\ wait' = w
  /\ savedCallback' = renders + 1
  /\ timer' = NoTimer
  /\ result' = Undefined
  /\ UNCHANGED <<requestVars, postVars, appVars, faultVars, clockVars, wrapVars, diffVars, prim, phase, now,
                 timers, nextId, last, lastArgs, lastCallTime, delay, deps,
                 delayRef, calls, execs, torn>>

\* A re-render of a component that calls useDebounce(callback, w) with a new
\* callback: `debounce(callback, wait)` makes a wrapper that useRef drops, since
\* the ref was initialised at the first render; the wrapper of the ref is returned.
useDebounceWith(w) ==
  /\ prim = "debounce"
  /\ phase = "mounted"
  /\ renders < MaxRenders
  /\ renders' = renders + 1
  /\ passedWait' = w
  /\ renderedAt' = Len(calls)
  /\ UNCHANGED <<requestVars, postVars, appVars, faultVars, clockVars, wrapVars, diffVars, prim, phase, now,
                 timers, nextId, timer, result, last, lastArgs, lastCallTime, wait,
                 delay, deps, savedCallback, delayRef, calls, execs, torn>>

\* A re-render of a component that calls useThrottle(callback, w) with a new
\* callback: as useDebounceWith, with throttle.
useThrottleWith(w) ==
  /\ prim = "throttle"
  /\ phase = "mounted"
  /\ renders < MaxRenders
  /\ renders' = renders + 1
  /\ passedWait' = w
  /\ renderedAt' = Len(calls)
  /\ UNCHANGED <<requestVars, postVars, appVars, faultVars, clockVars, wrapVars, diffVars, prim, phase, now,
                 timers, nextId, timer, result, last, lastArgs, lastCallTime, wait,
                 delay, deps, savedCallback, delayRef, calls, execs, torn>>

\* -------------------------------------- App: useDebounced(..., 1000, value)
\* The delay App passes to useDebounced, 1000 ms, in units of 500 ms.
AppDelay == 2

\* The callback `() => setDebounced(value)` of a render, by the value it closed over.
Closure(v) == <<v>>

\* The first render of App: the two effects of useDebounced run.
App ==
  /\ prim = "useDebounced"
  /\ First
  /\ phase' = "mounted"
  /\ renders' = 1
  /\ savedCallback' = Closure(value)
  /\ timers' = setTimeout(timers, AppDelay, 0, 0)
  /\ timer' = nextId
  /\ nextId' = nextId + 1
  /\ delay' = AppDelay
  /\ deps' = value
  /\ UNCHANGED <<requestVars, postVars, appVars, propVars, faultVars, clockVars, wrapVars, diffVars, prim,
                 now, result, last, lastArgs, lastCallTime, wait, delayRef, calls,
                 execs, torn>>

\* Faulty variant of setValue: the effect of useDebounced returns no cleanup.
setValue_noCancel(v) ==
  /\ prim = "useDebounced"
  /\ phase = "mounted"
  /\ renders <= MaxEdits
  /\ value' = v
  /\ renders' = renders + 1
  /\ savedCallback' = Closure(v)
  /\ IF v # deps
       THEN /\ timers' = setTimeout(timers, AppDelay, 0, 0)
            /\ timer' = nextId
            /\ nextId' = nextId + 1
       ELSE UNCHANGED <<timers, timer, nextId>>
  /\ deps' = v
  /\ calls' = Append(calls, CallRec(v, Undefined, FALSE))
  /\ UNCHANGED <<requestVars, postVars, debounced, propVars, faultVars, clockVars, wrapVars, diffVars,
                 prim, phase, now, result, last, lastArgs, lastCallTime, wait,
                 delay, delayRef, execs, torn>>

\* A click on +1 or -1: setValue(v), and the render that follows it, in which
\* useDebounced saves the new callback and, deps having changed, clears the
\* pending timer and arms a new one.
setValue(v) ==
  /\ prim = "useDebounced"
  /\ phase = "mounted"
  /\ renders <= MaxEdits
  /\ value' = v
  /\ renders' = renders + 1
  /\ savedCallback' = Closure(v)
  /\ IF v # deps
       THEN /\ timers' = setTimeout(clearTimeout(timers, timer), AppDelay, 0, 0)
            /\ timer' = nextId
            /\ nextId' = nextId + 1
       ELSE UNCHANGED <<timers, timer, nextId>>
  /\ deps' = v
  /\ calls' = Append(calls, CallRec(v, Undefined, FALSE))
  /\ UNCHANGED <<requestVars, postVars, debounced, propVars, faultVars, clockVars, wrapVars, diffVars,
                 prim, phase, now, result, last, lastArgs, lastCallTime, wait,
                 delay, delayRef, execs, torn>>

\* The timer callback of useDebounced in App: savedCallback.current() runs
\* setDebounced with the value that callback closed over. The render that follows
\* saves a callback over the same value and leaves the timer alone.
setDebounced(tm) ==
  /\ prim = "useDebounced"
  /\ Due(tm)
  /\ timers' = timers \ {tm}
  /\ debounced' = savedCallback[1]
  /\ execs' = Append(execs, ExecRec(savedCallback[1], "timer", Len(calls)))
  /\ UNCHANGED <<requestVars, postVars, value, propVars, faultVars, clockVars, wrapVars, diffVars, prim,
                 phase, now, nextId, timer, result, last, lastArgs, lastCallTime,
                 wait, delay, deps, renders, savedCallback, delayRef, calls, torn>>

\* Time passes while a timer is pending and none is due.
Elapse ==
  /\ timers # {}
  /\ \A tm \in timers : ~Due(tm)
  /\ now' = now + 1
  /\ UNCHANGED <<requestVars, postVars, appVars, propVars, faultVars, clockVars, wrapVars, diffVars, prim,
                 phase, timers, nextId, timer, result, last, lastArgs,
                 lastCallTime, wait, delay, deps, renders, savedCallback, delayRef,
                 calls, execs, torn>>

\* ------------------------------------------------------ App: the post list
\* Titles are numbered in the order of their strings: 0 is "", 1 .. 4 are the
\* four initial posts' titles, 5 is a title greater than those.
InitialPosts == <<4, 3, 2, 1>>
Typed == {0, 5}

RECURSIVE Insert(_, _)
\* s, sorted, with title t put where `a.title > b.title ? 1 : -1` leaves it.
Insert(s, t) ==
  IF s = <<>> THEN <<t>>
  ELSE IF Head(s) > t THEN <<t>> \o s
  ELSE <<Head(s)>> \o Insert(Tail(s), t)

RECURSIVE Sorted(_)
\* copyPost.sort((a, b) => a.title > b.title ? 1 : -1)
Sorted(s) == IF s = <<>> THEN <<>> ELSE Insert(Sorted(Tail(s)), Head(s))

\* copyPost.splice(idx, 1), idx 0-based
Splice(s, idx) == SubSeq(s, 1, idx) \o SubSeq(s, idx + 2, Len(s))

\* The rendered posts' indices.
Rendered == 0 .. Len(post) - 1

\* onChange of the title input.
changeTitle(t) ==
  /\ prim = "App"
  /\ newTitle' = t
  /\ UNCHANGED <<post, targetIdx, modalFlag>>
  /\ UNCHANGED <<requestVars, appVars, propVars, faultVars, clockVars, wrapVars, diffVars, prim,
                 phase, now, timers, nextId, timer, result, last, lastArgs,
                 lastCallTime, wait, delay, deps, renders, savedCallback, delayRef,
                 calls, execs, torn>>

\* A click on the title of post idx.
clickTitle(idx) ==
  /\ prim = "App"
  /\ idx \in Rendered
  /\ IF targetIdx # idx
       THEN targetIdx' = idx /\ modalFlag' = TRUE
       ELSE targetIdx' = targetIdx /\ modalFlag' = ~modalFlag
  /\ UNCHANGED <<post, newTitle>>
  /\ UNCHANGED <<requestVars, appVars, propVars, faultVars, clockVars, wrapVars, diffVars, prim,
                 phase, now, timers, nextId, timer, result, last, lastArgs,
                 lastCallTime, wait, delay, deps, renders, savedCallback, delayRef,
                 calls, execs, torn>>

\* Faulty variant of clickDelete: setModalFlag(false) is left out.
clickDelete_keepsModal(idx) ==
  /\ prim = "App"
  /\ idx \in Rendered
  /\ post' = Splice(post, idx)
  /\ UNCHANGED <<targetIdx, modalFlag, newTitle>>
  /\ UNCHANGED <<requestVars, appVars, propVars, faultVars, clockVars, wrapVars, diffVars, prim,
                 phase, now, timers, nextId, timer, result, last, lastArgs,
                 lastCallTime, wait, delay, deps, renders, savedCallback, delayRef,
                 calls, execs, torn>>

\* A click on the delete button of post idx.
clickDelete(idx) ==
  /\ prim = "App"
  /\ idx \in Rendered
  /\ post' = Splice(post, idx)
  /\ modalFlag' = FALSE
  /\ UNCHANGED <<targetIdx, newTitle>>
  /\ UNCHANGED <<requestVars, appVars, propVars, faultVars, clockVars, wrapVars, diffVars, prim,
                 phase, now, timers, nextId, timer, result, last, lastArgs,
                 lastCallTime, wait, delay, deps, renders, savedCallback, delayRef,
                 calls, execs, torn>>

\* A click on the register button: copyPost.unshift({title: newTitle, ...}).
clickRegister ==
  /\ prim = "App"
  /\ Len(post) < MaxPosts
  /\ post' = <<newTitle>> \o post
  /\ newTitle' = 0
  /\ UNCHANGED <<targetIdx, modalFlag>>
  /\ UNCHANGED <<requestVars, appVars, propVars, faultVars, clockVars, wrapVars, diffVars, prim,
                 phase, now, timers, nextId, timer, result, last, lastArgs,
                 lastCallTime, wait, delay, deps, renders, savedCallback, delayRef,
                 calls, execs, torn>>

\* A click on the sort button.
clickSort ==
  /\ prim = "App"
  /\ post' = Sorted(post)
  /\ UNCHANGED <<targetIdx, modalFlag, newTitle>>
  /\ UNCHANGED <<requestVars, appVars, propVars, faultVars, clockVars, wrapVars, diffVars, prim,
                 phase, now, timers, nextId, timer, result, last, lastArgs,
                 lastCallTime, wait, delay, deps, renders, savedCallback, delayRef,
                 calls, execs, torn>>

\* ------------------------------------------------------------ useRequest
\* How promiseCreator's promise settles: fulfilled, rejected with an Error,
\* rejected with something that is no Error.
Outcomes == {"response", "Error", "other"}

\* The requests made so far.
Requested == Cardinality(pending) + Len(settled)

\* Faulty variant of onRequest: loading is switched on for every request.
onRequest_loadingAgain ==
  /\ prim = "useRequest"
  /\ Requested < MaxRequests
  /\ pending' = pending \cup {Requested + 1}
  /\ loading' = TRUE
  /\ UNCHANGED <<data, error, settled>>
  /\ UNCHANGED <<postVars, appVars, propVars, faultVars, clockVars, wrapVars,
                 diffVars, prim, phase, now, timers, nextId, timer, result, last,
                 lastArgs, lastCallTime, wait, delay, deps, renders, savedCallback,
                 delayRef, calls, execs, torn>>

\* onRequest(...params) up to its await: promiseCreator is called, no state is set.
onRequest ==
  /\ prim = "useRequest"
  /\ Requested < MaxRequests
  /\ pending' = pending \cup {Requested + 1}
  /\ UNCHANGED <<loading, data, error, settled>>
  /\ UNCHANGED <<postVars, appVars, propVars, faultVars, clockVars, wrapVars,
                 diffVars, prim, phase, now, timers, nextId, timer, result, last,
                 lastArgs, lastCallTime, wait, delay, deps, renders, savedCallback,
                 delayRef, calls, execs, torn>>

\* onRequest after its await, for request r settling as how: setData on a
\* response, setError on an Error, and setLoading(false) in any case.
onRequestSettles(r, how) ==
  /\ prim = "useRequest"
  /\ r \in pending
  /\ pending' = pending \ {r}
  /\ settled' = Append(settled, [id |-> r, how |-> how])
  /\ data' = IF how = "response" THEN r ELSE data
  /\ error' = IF how = "Error" THEN r ELSE error
  /\ loading' = FALSE
  /\ UNCHANGED <<postVars, appVars, propVars, faultVars, clockVars, wrapVars,
                 diffVars, prim, phase, now, timers, nextId, timer, result, last,
                 lastArgs, lastCallTime, wait, delay, deps, renders, savedCallback,
                 delayRef, calls, execs, torn>>

onReset ==
  /\ prim = "useRequest"
  /\ loading' = FALSE
  /\ data' = 0
  /\ error' = 0
  /\ UNCHANGED <<pending, settled>>
  /\ UNCHANGED <<postVars, appVars, propVars, faultVars, clockVars, wrapVars,
                 diffVars, prim, phase, now, timers, nextId, timer, result, last,
                 lastArgs, lastCallTime, wait, delay, deps, renders, savedCallback,
                 delayRef, calls, execs, torn>>

\* ------------------------------------------------ wrapping a non-callable
\* typeof values of a func argument that is not callable.
NonCallables == {"undefined", "number", "object"}

\* debounce(func, wait), debouncePress(func, wait), throttle(func, delay) with a
\* func that is not callable.  Only debouncePress tests typeof func and throws;
\* debounce and throttle return their wrapper.
wrap ==
  /\ prim \in WrapperPrims
  /\ phase = "init"
  /\ func \in NonCallables
  /\ IF prim = "debouncePress"
       THEN thrown' = "wrap" /\ phase' = "failed"
       ELSE thrown' = thrown /\ phase' = "mounted"
  /\ UNCHANGED <<requestVars, postVars, appVars, propVars, faultVars, clockVars, diffVars, prim, func, now, timers, nextId, timer, result, last,
                 lastArgs, lastCallTime, wait, delay, deps, renders, savedCallback,
                 delayRef, calls, execs, torn>>

\* The timer callback of debounce when func is not callable: `func(...param)`
\* throws a TypeError inside the callback, before result is assigned.
debounceFireThrows(tm) ==
  /\ prim = "debounce"
  /\ func \in NonCallables
  /\ Due(tm)
  /\ timers' = timers \ {tm}
  /\ thrown' = "timer"
  /\ UNCHANGED <<requestVars, postVars, appVars, propVars, faultVars, clockVars, diffVars, prim, func, phase, now, nextId, timer, result, last,
                 lastArgs, lastCallTime, wait, delay, deps, renders, savedCallback,
                 delayRef, calls, execs, torn>>

\* A call of the throttle wrapper when func is not callable: in the immediate
\* branch last = now is assigned and `func(...param)` throws out of the call,
\* before clearTimeout; the deferred branch arms the timer as usual.
throttleThrows(a) ==
  /\ prim = "throttle"
  /\ func \in NonCallables
  /\ CanCall
  /\ LET remaining == delay - (DateNow - last)
     IN IF remaining <= 0
          THEN /\ last' = DateNow
               /\ thrown' = "call"
               /\ calls' = Append(calls, CallRec(a, Undefined, TRUE))
               /\ UNCHANGED <<timers, timer, nextId>>
          ELSE /\ IF timer = NoTimer
                    THEN /\ timers' = setTimeout(timers, remaining, a, 0)
                         /\ timer' = nextId
                         /\ nextId' = nextId + 1
                    ELSE UNCHANGED <<timers, timer, nextId>>
               /\ calls' = Append(calls, CallRec(a, result, FALSE))
               /\ UNCHANGED <<last, thrown>>
  /\ UNCHANGED <<requestVars, postVars, appVars, propVars, faultVars, clockVars, diffVars, prim, func, phase, now, result, lastArgs, lastCallTime,
                 wait, delay, deps, renders, savedCallback, delayRef, execs, torn>>

\* The timer callback of throttle when func is not callable: last = Date.now(),
\* then `func(...param)` throws a TypeError inside the callback.
throttleFireThrows(tm) ==
  /\ prim = "throttle"
  /\ func \in NonCallables
  /\ Due(tm)
  /\ timers' = timers \ {tm}
  /\ last' = DateNow
  /\ thrown' = "timer"
  /\ UNCHANGED <<requestVars, postVars, appVars, propVars, faultVars, clockVars, diffVars, prim, func, phase, now, nextId, timer, result,
                 lastArgs, lastCallTime, wait, delay, deps, renders, savedCallback,
                 delayRef, calls, execs, torn>>

\* ---------------------------------------------------------- stateChanged
\* Faulty variant of diff: the comparison brings prev up to date, writing the
\* reported values into it.
diff_updatesPrev ==
  /\ prim = "stateChanged"
  /\ phase = "input"
  /\ changes' = stateChanged(prev, current)
  /\ prev' = current
  /\ phase' = "diffed"
  /\ UNCHANGED <<requestVars, postVars, appVars, propVars, faultVars, clockVars, wrapVars, prim, now, timers, nextId, timer, result, last,
                 lastArgs, lastCallTime, wait, delay, deps, renders, savedCallback,
                 delayRef, calls, execs, torn, current, again>>

\* changes = stateChanged(prev, current).  The function assigns to its own
\* `changes` and `arrayChanges` only, and reads nothing but its two arguments.
diff ==
  /\ prim = "stateChanged"
  /\ phase = "input"
  /\ changes' = stateChanged(prev, current)
  /\ phase' = "diffed"
  /\ UNCHANGED <<requestVars, postVars, appVars, propVars, faultVars, clockVars, wrapVars, prim, now, timers, nextId, timer, result, last,
                 lastArgs, lastCallTime, wait, delay, deps, renders, savedCallback,
                 delayRef, calls, execs, torn, prev, current, again>>

\* A second evaluation of stateChanged on the same two snapshots.
diffAgain ==
  /\ prim = "stateChanged"
  /\ phase = "diffed"
  /\ again' = stateChanged(prev, current)
  /\ phase' = "again"
  /\ UNCHANGED <<requestVars, postVars, appVars, propVars, faultVars, clockVars, wrapVars, prim, now, timers, nextId, timer, result, last,
                 lastArgs, lastCallTime, wait, delay, deps, renders, savedCallback,
                 delayRef, calls, execs, torn, prev, current, changes>>

\* --------------------------------------------------------- specification
\* The primitive prim right after it was made: a wrapper is there to be called,
\* a hook's component is not rendered yet.
Fresh ==
  /\ phase = IF prim \in WrapperPrims THEN "mounted" ELSE "init"
  /\ now = Epoch
  /\ timers = {}
  /\ nextId = 1
  /\ timer = NoTimer
  /\ result = Undefined
  /\ last = 0
  /\ lastArgs = Undefined
  /\ lastCallTime = Undefined
  /\ wait \in IF prim \in DebouncePrims THEN Delays ELSE {0}
  /\ delay \in IF prim = "throttle" THEN Delays ELSE {0}
  /\ deps = 0
  /\ renders = IF prim \in WrapperPrims THEN 1 ELSE 0
  /\ savedCallback = IF prim \in WrapperPrims THEN 1 ELSE NoTimer
  /\ delayRef = Undefined
  /\ calls = <<>>
  /\ execs = <<>>
  /\ torn = {}

\* func is callable.
Callable == func = "function" /\ thrown = "none"

Init ==
  /\ RequestIdle
  /\ PostIdle
  /\ AppIdle
  /\ PropsIdle
  /\ NeverThrows
  /\ ClockInStep
  /\ prim \in Prims
  /\ Fresh
  /\ Callable
  /\ DiffIdle

Next ==
  \/ \E a \in Args : debounce(a)
  \/ \E tm \in timers : debounceFire(tm)
  \/ \E a \in Args : debouncePress(a)
  \/ \E tm \in timers : timerExpired(tm)
  \/ \E a \in Args : throttle(a)
  \/ \E tm \in timers : throttleFire(tm)
  \/ useDebounce
  \/ useThrottle
  \/ \E d \in Delays, k \in 0 .. 1 : useDebounced(d, k)
  \/ \E d \in Delays \ {0} : useInterval(d)
  \/ \E d \in Delays : useDelay(d)
  \/ useDelayTrigger
  \/ \E d \in Delays : useTimeout(d)
  \/ \E d \in Delays : useModal(d)
  \/ \E tm \in timers : hookFire(tm)
  \/ Unmount
  \/ Tick

Spec == Init /\ [][Next]_vars

\* A wrapping primitive is handed a func that is not callable.
InitWrap ==
  /\ RequestIdle
  /\ PostIdle
  /\ AppIdle
  /\ PropsIdle
  /\ NeverThrows
  /\ ClockInStep
  /\ prim \in WrapperPrims
  /\ phase = "init"
  /\ now = Epoch
  /\ timers = {}
  /\ nextId = 1
  /\ timer = NoTimer
  /\ result = Undefined
  /\ last = 0
  /\ lastArgs = Undefined
  /\ lastCallTime = Undefined
  /\ wait \in IF prim \in DebouncePrims THEN Delays ELSE {0}
  /\ delay \in IF prim = "throttle" THEN Delays ELSE {0}
  /\ deps = 0
  /\ renders = 1
  /\ savedCallback = NoTimer
  /\ delayRef = Undefined
  /\ calls = <<>>
  /\ execs = <<>>
  /\ torn = {}
  /\ func \in NonCallables
  /\ thrown = "none"
  /\ DiffIdle

NextWrap ==
  \/ wrap
  \/ \E a \in Args : debounce(a)
  \/ \E tm \in timers : debounceFireThrows(tm)
  \/ \E a \in Args : throttleThrows(a)
  \/ \E tm \in timers : throttleFireThrows(tm)
  \/ Tick

SpecWrap == InitWrap /\ [][NextWrap]_vars

\* A wrapper that reads Date.now(), under a wall clock that can be set back.
InitSkew == Init /\ prim \in SkewPrims

NextSkew ==
  \/ \E a \in Args : debouncePress(a)
  \/ \E tm \in timers : timerExpired(tm)
  \/ \E a \in Args : throttle(a)
  \/ \E tm \in timers : throttleFire(tm)
  \/ Skew
  \/ Tick

SpecSkew == InitSkew /\ [][NextSkew]_vars

\* A wrapper around an fn that throws on some arguments.
InitThrow ==
  /\ RequestIdle
  /\ PostIdle
  /\ AppIdle
  /\ PropsIdle
  /\ ClockInStep
  /\ prim \in WrapperPrims
  /\ Fresh
  /\ Callable
  /\ DiffIdle
  /\ faulty \in SUBSET Args \ {{}}

\* An execution of fn returns (the step of the fault-free wrapper) or throws.
NextThrow ==
  \/ \E a \in Args : debounce(a)
  \/ \E tm \in timers : tm.param \notin faulty /\ debounceFire(tm)
  \/ \E tm \in timers : debounceFireRaises(tm)
  \/ \E a \in Args : debouncePress(a)
  \/ \E tm \in timers : ~(shouldInvoke(DateNow) /\ lastArgs \in faulty) /\ timerExpired(tm)
  \/ \E tm \in timers : timerExpiredRaises(tm)
  \/ \E a \in Args : ~(a \in faulty /\ delay - (DateNow - last) <= 0) /\ throttle(a)
  \/ \E a \in Args : throttleRaises(a)
  \/ \E tm \in timers : tm.param \notin faulty /\ throttleFire(tm)
  \/ \E tm \in timers : throttleFireRaises(tm)
  \/ Tick

SpecThrow == InitThrow /\ [][NextThrow]_vars

\* A component that calls useDebounce or useThrottle and passes a new callback,
\* and any wait, at every render.
InitRender ==
  /\ RequestIdle
  /\ PostIdle
  /\ AppIdle
  /\ NeverThrows
  /\ ClockInStep
  /\ prim \in {"debounce", "throttle"}
  /\ Fresh
  /\ Callable
  /\ DiffIdle
  /\ passedWait = Waited
  /\ renderedAt = 0

\* The arguments the component calls the wrapper with: the least and the greatest.
RenderArgs == {1, MaxArg}

NextRender ==
  \/ \E a \in RenderArgs : debounce(a)
  \/ \E tm \in timers : debounceFire(tm)
  \/ \E a \in RenderArgs : throttle(a)
  \/ \E tm \in timers : throttleFire(tm)
  \/ \E w \in Delays : useDebounceWith(w)
  \/ \E w \in Delays : useThrottleWith(w)
  \/ Tick

SpecRender == InitRender /\ [][NextRender]_vars

\* App and its debounced counter. The host runs a due timer callback, and time
\* does not stand still while a timer is pending.
InitApp == Init /\ prim = "useDebounced"

NextApp ==
  \/ App
  \/ \E v \in {value + 1, value - 1} : setValue(v)
  \/ \E tm \in timers : setDebounced(tm)
  \/ Unmount
  \/ Elapse

SpecApp ==
  /\ InitApp
  /\ [][NextApp]_vars
  /\ WF_vars(Elapse)
  /\ WF_vars(\E tm \in timers : setDebounced(tm))

\* stateChanged is handed two Structured Records.
InitDiff ==
  /\ RequestIdle
  /\ PostIdle
  /\ AppIdle
  /\ PropsIdle
  /\ NeverThrows
  /\ ClockInStep
  /\ prim = "stateChanged"
  /\ phase = "input"
  /\ now = Epoch
  /\ timers = {}
  /\ nextId = 1
  /\ timer = NoTimer
  /\ result = Undefined
  /\ last = 0
  /\ lastArgs = Undefined
  /\ lastCallTime = Undefined
  /\ wait = 0
  /\ delay = 0
  /\ deps = 0
  /\ renders = 0
  /\ savedCallback = NoTimer
  /\ delayRef = Undefined
  /\ calls = <<>>
  /\ execs = <<>>
  /\ torn = {}
  /\ func = "function"
  /\ thrown = "none"
  /\ prev \in Records
  /\ current \in Records
  /\ changes = Missing
  /\ again = Missing

NextDiff == diff \/ diffAgain

SpecDiff == InitDiff /\ [][NextDiff]_vars

\* stateChanged is handed two records whose values are of every kind.
InitKinds ==
  /\ RequestIdle
  /\ PostIdle
  /\ AppIdle
  /\ PropsIdle
  /\ NeverThrows
  /\ ClockInStep
  /\ prim = "stateChanged"
  /\ phase = "input"
  /\ now = Epoch
  /\ timers = {}
  /\ nextId = 1
  /\ timer = NoTimer
  /\ result = Undefined
  /\ last = 0
  /\ lastArgs = Undefined
  /\ lastCallTime = Undefined
  /\ wait = 0
  /\ delay = 0
  /\ deps = 0
  /\ renders = 0
  /\ savedCallback = NoTimer
  /\ delayRef = Undefined
  /\ calls = <<>>
  /\ execs = <<>>
  /\ torn = {}
  /\ func = "function"
  /\ thrown = "none"
  /\ prev \in MixedRecords
  /\ current \in MixedRecords
  /\ NoArrayFacesArray(prev, current)
  /\ changes = Missing
  /\ again = Missing

SpecKinds == InitKinds /\ [][NextDiff]_vars

\* The post list of App.
InitPosts ==
  /\ RequestIdle
  /\ AppIdle
  /\ PropsIdle
  /\ NeverThrows
  /\ ClockInStep
  /\ prim = "App"
  /\ Fresh
  /\ Callable
  /\ DiffIdle
  /\ post = InitialPosts
  /\ targetIdx = 0
  /\ modalFlag = FALSE
  /\ newTitle = 0

NextPosts ==
  \/ \E t \in Typed : changeTitle(t)
  \/ \E idx \in Rendered : clickTitle(idx)
  \/ \E idx \in Rendered : clickDelete(idx)
  \/ clickRegister
  \/ clickSort

SpecPosts == InitPosts /\ [][NextPosts]_vars

\* A component that uses useRequest.
InitRequest ==
  /\ PostIdle
  /\ AppIdle
  /\ PropsIdle
  /\ NeverThrows
  /\ ClockInStep
  /\ prim = "useRequest"
  /\ Fresh
  /\ Callable
  /\ DiffIdle
  /\ loading = TRUE
  /\ data = 0
  /\ error = 0
  /\ pending = {}
  /\ settled = <<>>

NextRequest ==
  \/ onRequest
  \/ \E r \in pending, how \in Outcomes : onRequestSettles(r, how)
  \/ onReset

SpecRequest == InitRequest /\ [][NextRequest]_vars

\* ------------------------------------------------- history, read by claims
Cached(n) == IF n = 0 THEN Undefined ELSE Func(execs[n].arg)

\* The milliseconds between call i-1 and call i.
Gap(i) == calls[i].t - calls[i - 1].t

\* For each execution, the call it follows and the argument it passed to fn.
ExecTrace == [j \in 1 .. Len(execs) |-> <<execs[j].nCalls, execs[j].arg>>]

\* For each call that Ends(i) picks (the last call of a burst), in order, the call
\* and its argument.
BurstTrace(Ends(_)) ==
  LET idx == SelectSeq([i \in 1 .. Len(calls) |-> i], Ends)
  IN [j \in 1 .. Len(idx) |-> <<idx[j], calls[idx[j]].arg>>]

\* Bursts as C1 states them: call i+1 continues the burst iff it comes less than
\* wait ms after call i.
EndsBurstClaimed(i) == i = Len(calls) \/ Gap(i + 1) >= wait

\* Bursts as amended: also a call exactly wait ms after the previous one continues
\* the burst when it ran before the pending timer's callback.
JoinsBurst(i) == Gap(i) < wait \/ (Gap(i) = wait /\ calls[i].hadTimer)

EndsBurst(i) == i = Len(calls) \/ ~JoinsBurst(i + 1)

\* No call of a debounce wrapper is waiting for its timer.
DebounceQuiet == prim = "debounce" /\ timers = {}

\* ------------------------------------------------------------------ C1
\* C1 as claimed: once a debounce wrapper is quiet (no timer pending), fn has run
\* exactly once per maximal burst of calls less than wait ms apart, with the
\* arguments of the burst's last call.
C1_OncePerBurstClaimed == DebounceQuiet => ExecTrace = BurstTrace(EndsBurstClaimed)

\* C1 amended: the same, where a burst also takes in a call made exactly wait ms
\* after the previous one if it ran before the pending timer's callback (with
\* wait = 0: a call made in the same instant, before the callback).
C1_OncePerBurst == DebounceQuiet => ExecTrace = BurstTrace(EndsBurst)

\* C1 witness: three calls in two bursts, both executed, one of the calls joining
\* its burst exactly wait > 0 ms after the previous call.
C1_Witness ==
  /\ DebounceQuiet
  /\ wait > 0
  /\ Len(calls) = 3
  /\ Len(execs) = 2
  /\ \E i \in 2 .. 3 : Gap(i) = wait /\ calls[i].hadTimer

\* ------------------------------------------------------------------ C2
\* C2: debounce and debouncePress execute fn only when at least wait ms have
\* passed since the most recent call to the wrapper.
C2_ExecOnlyAfterWait ==
  prim \in DebouncePrims =>
    \A j \in 1 .. Len(execs) :
      /\ execs[j].nCalls >= 1
      /\ execs[j].t - calls[execs[j].nCalls].t >= wait

\* C2 witness: debouncePress has executed fn after a call that arrived while its
\* timer was pending, less than wait ms after the call before it.
C2_Witness ==
  /\ prim = "debouncePress"
  /\ Len(execs) >= 1
  /\ \E i \in 2 .. Len(calls) : calls[i].hadTimer /\ Gap(i) > 0 /\ Gap(i) < wait

\* ------------------------------------------------------------------ C3
\* C3: a call to a debounce wrapper never executes fn itself; it returns the
\* result of the most recent completed execution (undefined before the first),
\* and the cached result is always the result of the most recent execution.
C3_CallReturnsCached ==
  prim \in DebouncePrims =>
    /\ result = Cached(Len(execs))
    /\ \A j \in 1 .. Len(execs) : execs[j].src = "timer"
    /\ \A i \in 1 .. Len(calls) :
         ~calls[i].sync /\ calls[i].ret = Cached(calls[i].nExec)

\* C3 witness: with wait = 0, one call returned undefined and a later call
\* returned the result of an earlier execution.
C3_Witness ==
  /\ prim \in DebouncePrims
  /\ wait = 0
  /\ \E i \in 1 .. Len(calls) : calls[i].ret = Undefined
  /\ \E i \in 1 .. Len(calls) :
       calls[i].nExec >= 1 /\ calls[i].ret = Func(execs[calls[i].nExec].arg)

\* ------------------------------------------------------------------ C4
\* The call was made at least delay ms after the last execution of fn (or before
\* any execution).
ThrottleOpen(c) == c.nExec = 0 \/ c.t - execs[c.nExec].t >= delay

\* C4: such a call to a throttle wrapper executes fn inside the call with its own
\* arguments and returns the fresh result; any other call executes nothing inside
\* the call and returns the previously computed result.
C4_ThrottleImmediate ==
  prim = "throttle" =>
    \A i \in 1 .. Len(calls) :
      LET c == calls[i]
      IN IF ThrottleOpen(c)
           THEN /\ c.sync
                /\ c.ret = Func(c.arg)
                /\ Len(execs) > c.nExec
                /\ execs[c.nExec + 1].src = "call"
                /\ execs[c.nExec + 1].nCalls = i
                /\ execs[c.nExec + 1].arg = c.arg
                /\ execs[c.nExec + 1].t = c.t
           ELSE /\ ~c.sync
                /\ c.ret = Cached(c.nExec)
                /\ \A j \in 1 .. Len(execs) :
                     ~(execs[j].src = "call" /\ execs[j].nCalls = i)

\* C4 witness: a first call and a later call both executed fn immediately, and a
\* call between them was deferred and returned the first call's result.
C4_Witness ==
  /\ prim = "throttle"
  /\ delay > 0
  /\ Len(calls) = 3
  /\ calls[1].sync /\ ~calls[2].sync /\ calls[3].sync
  /\ calls[2].ret = Func(calls[1].arg)
  /\ calls[3].ret # calls[2].ret

\* ------------------------------------------------------------------ C5
\* C5 as claimed: a deferred call of a throttle wrapper that no execution has
\* followed yet has a timer pending, due when delay ms have passed since the last
\* execution.
C5_DeferredCallHasTimer ==
  (prim = "throttle" /\ Len(calls) > 0) =>
    LET c == calls[Len(calls)]
    IN (~c.sync /\ Len(execs) = c.nExec) =>
         \E tm \in timers : tm.due = execs[c.nExec].t + delay

\* ------------------------------------------------------------------ C6
\* C6 as claimed: an execution of fn by the throttle timer passes the arguments of
\* the most recent call made before it.
C6_TimerRunsLatestArgs ==
  prim = "throttle" =>
    \A j \in 1 .. Len(execs) :
      execs[j].src = "timer" => execs[j].arg = calls[execs[j].nCalls].arg

\* ------------------------------------------------------------------ C7
\* C7: executions of fn by one throttle wrapper are at least delay ms apart (so k
\* executions span at least (k-1)*delay ms), and no timer outlives an execution:
\* a timer that is pending was armed after the last execution.
C7_ThrottleSpacing ==
  prim = "throttle" =>
    /\ \A i, j \in 1 .. Len(execs) :
         i < j => execs[j].t - execs[i].t >= (j - i) * delay
    /\ \A tm \in timers : tm.seen = Len(execs)

\* C7 witness: an immediate execution happened while the timer was pending, and
\* fn has run at least twice.
C7_Witness ==
  /\ prim = "throttle"
  /\ delay > 0
  /\ Len(execs) >= 2
  /\ \E i \in 1 .. Len(calls) : calls[i].sync /\ calls[i].hadTimer

\* ------------------------------------------------------------------ C8
\* C8: a wrapper made by debounce, debouncePress or throttle has at most one live
\* timer.
C8_OneLiveTimer == prim \in WrapperPrims => Cardinality(timers) <= 1

\* C8 witness: a debounce wrapper was called while its timer was pending, and has
\* a timer pending now.
C8_Witness ==
  /\ prim = "debounce"
  /\ wait > 0
  /\ timers # {}
  /\ \E i \in 1 .. Len(calls) : calls[i].hadTimer

\* ------------------------------------------------------------------ C9
\* C9: no callback of useTimeout, useDelay, useDebounced, useInterval or useModal
\* executes after the owning component is torn down, and no timer of the hook is
\* left pending by the teardown.
C9_NoHookCallbackAfterTeardown ==
  prim \in HookPrims =>
    /\ \A j \in 1 .. Len(execs) : execs[j].live
    /\ phase = "unmounted" => timers = {}

\* C9 witness: a hook was torn down after a re-render, with a timer pending whose
\* due time has been reached since.
C9_Witness ==
  /\ prim \in HookPrims
  /\ phase = "unmounted"
  /\ renders >= 2
  /\ \E tm \in torn : tm.due <= now

\* ----------------------------------------------------------------- C10
\* C10 as claimed: after the component that owns a debounce or throttle wrapper
\* (through useDebounce or useThrottle) is torn down, the wrapper has no pending
\* timer and fn is not executed.
C10_NoWrapperExecAfterTeardown ==
  prim \in {"debounce", "throttle"} =>
    /\ \A j \in 1 .. Len(execs) : execs[j].live
    /\ phase = "unmounted" => timers = {}

\* ----------------------------------------------------------------- C11
\* Invocation i of the useDelay trigger was superseded: the next invocation was
\* made while the timer armed by invocation i was still pending.
Superseded(i) == i < Len(calls) /\ calls[i + 1].hadTimer

\* C11: each invocation of the useDelay trigger cancels the pending timer of the
\* previous invocation and arms a new one: at most one timer is pending, it is the
\* latest invocation's and its delay has not passed, the callback fires at most once per invocation and never for a superseded one, and
\* once no timer is pending (component mounted) it has fired for exactly the
\* invocations that were not superseded.
C11_TriggerRearms ==
  prim = "useDelay" =>
    /\ Cardinality(timers) <= 1
    /\ \A tm \in timers :
         /\ tm.id = timer
         /\ tm.born = calls[Len(calls)].t
         /\ now <= tm.due
    /\ \A j \in 1 .. Len(execs) :
         /\ execs[j].nCalls >= 1
         /\ ~Superseded(execs[j].nCalls)
         /\ j > 1 => execs[j].nCalls > execs[j - 1].nCalls
    /\ (timers = {} /\ phase = "mounted") =>
         {execs[j].nCalls : j \in 1 .. Len(execs)}
           = {i \in 1 .. Len(calls) : ~Superseded(i)}

\* C11 witness: three invocations, the second superseding the first after some
\* time, and the callback has fired for the second and the third only.
C11_Witness ==
  /\ prim = "useDelay"
  /\ phase = "mounted"
  /\ timers = {}
  /\ Len(calls) = 3
  /\ Gap(2) > 0 /\ calls[2].hadTimer /\ ~calls[3].hadTimer
  /\ Len(execs) = 2

\* ----------------------------------------------------------------- C12
\* The steps of useDelay.  An invocation of the trigger leaves one timer, due
\* the delay from now that delayRef holds now.  A render, which stores a callback
\* and a delay in the refs, leaves the pending timer as it is.  A firing is of a
\* pending timer, at its due time, and executes Callback(tm), a callback chosen
\* by the timer tm that fires.
useDelaySteps(Callback(_)) ==
  prim = "useDelay" =>
    /\ Len(calls') = Len(calls) + 1 =>
         \E tm \in timers' :
           /\ timers' = {tm}
           /\ tm.id = nextId
           /\ tm.due = now + OrZero(delayRef)
           /\ tm.cb = savedCallback
    /\ renders' = renders + 1 => timers' = timers
    /\ Len(execs') = Len(execs) + 1 =>
         \E tm \in timers :
           /\ timers' = timers \ {tm}
           /\ tm.due = now
           /\ execs'[Len(execs')].t = now
           /\ execs'[Len(execs')].arg = Callback(tm)

\* The callback that callbackRef held when timer tm was armed.
CallbackAtInvocation(tm) == tm.cb

\* The callback that callbackRef holds when tm fires: the callback of the latest
\* render (the callback of render k is callback k).
CallbackAtFiring(tm) == renders

\* C12 as claimed: the timer armed by an invocation of the useDelay trigger uses
\* the delay and the callback that the refs held at that invocation; what is
\* stored in the refs later changes neither when it fires nor what it executes.
C12_SnapshotAtInvocation == [][useDelaySteps(CallbackAtInvocation)]_vars

\* C12 amended: the timer uses the delay that delayRef held at the invocation (a
\* delay stored later does not move the firing), and executes the callback that
\* callbackRef holds when the timer fires (a callback stored after the invocation
\* is the one executed).
C12_DelayAtInvocationCallbackAtFiring == [][useDelaySteps(CallbackAtFiring)]_vars

\* C12 witness: the timer fired after a re-render that followed its invocation and
\* stored another callback and another delay; it executed the later callback.
C12_Witness ==
  /\ prim = "useDelay"
  /\ delayRef # MaxDelay
  /\ \E j \in 1 .. Len(execs) :
       /\ execs[j].nCalls >= 1
       /\ execs[j].arg > execs[j].cb
       /\ execs[j].t = calls[execs[j].nCalls].t + MaxDelay

\* ----------------------------------------------------------------- C13
\* In every state of useTimeout: at most one timer is pending, it is the timer
\* the ref names and was armed with the current delay; every timer armed came
\* from a render, and fired at most once.
C13_State ==
  prim = "useTimeout" =>
    /\ Cardinality(timers) <= 1
    /\ \A tm \in timers : tm.id = timer /\ tm.due = tm.born + delay
    /\ Len(execs) + Cardinality(timers) <= nextId - 1
    /\ nextId - 1 <= renders

\* In every render of useTimeout: the first render and a render with another delay
\* cancel the pending timer and arm one timer with the new delay; a render with
\* the same delay (only the callback is new) leaves the timer queue alone.
C13_Render ==
  (prim = "useTimeout" /\ renders' = renders + 1) =>
    IF First \/ delay' # delay
      THEN /\ nextId' = nextId + 1
           /\ \E tm \in timers' :
                /\ timers' = {tm}
                /\ tm.id = nextId
                /\ tm.due = now + delay'
      ELSE /\ timers' = timers
           /\ nextId' = nextId
           /\ timer' = timer

\* C13: useTimeout arms exactly one timer per value of delay, cancelling the
\* pending one when delay changes; the callback runs at most once per timer, only
\* for the delay that is current when it fires; a render that changes only the
\* callback neither arms nor cancels a timer.
C13_OneTimerPerDelay == [](C13_State) /\ [][C13_Render]_vars

\* C13 witness: delay changed while the first timer was pending, and the callback
\* has run once, for the second delay.
C13_Witness ==
  /\ prim = "useTimeout"
  /\ phase = "mounted"
  /\ nextId = 3
  /\ timers = {}
  /\ Len(execs) = 1
  /\ execs[1].t > Epoch

\* ----------------------------------------------------------------- C14
\* C14: a func that is not callable makes the wrapping primitive fail when it is
\* wrapped, with a TypeError: no wrapper is returned (none is ever called), no
\* timer is created, and nothing is thrown later, in a call or a timer callback.
C14_NonCallableFailsAtWrap ==
  (func \in NonCallables /\ phase # "init") =>
    /\ phase = "failed"
    /\ thrown = "wrap"
    /\ nextId = 1
    /\ calls = <<>>

\* ----------------------------------------------------------------- C15
\* C15: the patch holds a key only if current's value under it is not deeply
\* equal to prev's; the patch of two deeply equal records is empty.
C15_OnlyChangedKeys ==
  (prim = "stateChanged" /\ phase = "diffed") =>
    /\ \A i \in KeyIx : changes.kids[i] # Missing => current.kids[i] # prev.kids[i]
    /\ prev = current => changes = Empty

\* ----------------------------------------------------------------- C16
\* The two records have the same keys, at every level.
RECURSIVE SameKeys(_, _)
SameKeys(p, c) ==
  /\ p.k = c.k
  /\ isObject(p) =>
       \A i \in KeyIx :
         /\ (p.kids[i] = Missing) <=> (c.kids[i] = Missing)
         /\ p.kids[i] # Missing => SameKeys(p.kids[i], c.kids[i])
  /\ isArray(p) =>
       \A j \in 1 .. Len(p.kids) :
         j <= Len(c.kids) => SameKeys(p.kids[j], c.kids[j])

\* Under every key where p and c both hold a record, pt holds their recursive
\* patch if that patch is non-empty and pt has no such key otherwise; the same
\* again inside that patch.  For records over the same keys the patch is
\* non-empty exactly when the two records differ.
RECURSIVE NestedPatches(_, _, _)
NestedPatches(pt, p, c) ==
  \A i \in KeyIx :
    (isObject(p.kids[i]) /\ isObject(c.kids[i])) =>
      LET sub == stateChanged(p.kids[i], c.kids[i])
      IN /\ IF HasKeys(sub)
              THEN /\ pt.kids[i] = sub
                   /\ NestedPatches(sub, p.kids[i], c.kids[i])
              ELSE pt.kids[i] = Missing
         /\ SameKeys(p.kids[i], c.kids[i]) =>
              (HasKeys(sub) <=> p.kids[i] # c.kids[i])

\* C16: where prev[k] and current[k] are both records the patch holds under k
\* exactly the recursive patch if it is non-empty and no key k otherwise, at any
\* nesting depth; the patch of {a:1, b:{b:2}} against {a:1, b:{b:3}} is {b:{b:3}},
\* the unchanged sibling a left out.
C16_NestedRecordPatch ==
  (prim = "stateChanged" /\ phase = "diffed") =>
    /\ NestedPatches(changes, prev, current)
    /\ (/\ prev = Rec(Prim(1), Rec(Missing, Prim(2)))
        /\ current = Rec(Prim(1), Rec(Missing, Prim(1))))
         => changes = Rec(Missing, Rec(Missing, Prim(1)))

\* C16 witness: records two levels down differ in one key only; the patch holds
\* that key alone, at that depth.
C16_Witness ==
  /\ prim = "stateChanged"
  /\ phase = "diffed"
  /\ prev = Rec(Prim(1), Rec(Prim(2), Rec(Prim(1), Prim(2))))
  /\ current = Rec(Prim(1), Rec(Prim(2), Rec(Prim(1), Prim(1))))
  /\ changes = Rec(Missing, Rec(Missing, Rec(Missing, Prim(1))))

\* ----------------------------------------------------------------- C17
\* C17: where prev[k] and current[k] are arrays of different lengths, the patch
\* holds under k the whole current array, element for element.
C17_LengthChangeReplaces ==
  (prim = "stateChanged" /\ phase = "diffed") =>
    \A i \in KeyIx :
      (/\ isArray(prev.kids[i])
       /\ isArray(current.kids[i])
       /\ Len(prev.kids[i].kids) # Len(current.kids[i].kids))
        => changes.kids[i] = current.kids[i]

\* C17 witness: an array of one record shrinks to the empty array, which the
\* patch holds.
C17_Witness ==
  /\ prim = "stateChanged"
  /\ phase = "diffed"
  /\ prev.kids[2] = Arr(<<Rec(Prim(1), Missing)>>)
  /\ current.kids[2] = Arr(<<>>)
  /\ changes.kids[2] = Arr(<<>>)

\* ----------------------------------------------------------------- C18
\* C18: where prev[k] and current[k] are arrays of equal length that differ in
\* some element, the patch holds under k an array of that length with every index
\* filled: the old element where the primitives are equal, the new one where they
\* are not, the nested patch where both elements are records.
C18_FullLengthArrayPatch ==
  (prim = "stateChanged" /\ phase = "diffed") =>
    \A i \in KeyIx :
      LET pv == prev.kids[i]
          cv == current.kids[i]
          x == changes.kids[i]
      IN (isArray(pv) /\ isArray(cv) /\ Len(pv.kids) = Len(cv.kids) /\ pv # cv) =>
           /\ isArray(x)
           /\ Len(x.kids) = Len(cv.kids)
           /\ \A j \in 1 .. Len(x.kids) :
                /\ x.kids[j] # Missing
                /\ (isObject(pv.kids[j]) /\ isObject(cv.kids[j]))
                     => x.kids[j] = stateChanged(pv.kids[j], cv.kids[j])
                /\ (pv.kids[j].k = "prim" /\ cv.kids[j].k = "prim")
                     => x.kids[j] = cv.kids[j]

\* ----------------------------------------------------------------- C19
\* The patch pt laid over base: a nested patch is merged into a record key by
\* key, an array of the patch is merged into an array of the same length index
\* by index (a hole keeps the element) and replaces any other value, a primitive
\* of the patch replaces what was there.
RECURSIVE Apply(_, _)
Apply(base, pt) ==
  IF pt = Missing THEN base
  ELSE IF isObject(pt) /\ isObject(base)
    THEN Rec(Apply(base.kids[1], pt.kids[1]), Apply(base.kids[2], pt.kids[2]))
  ELSE IF isArray(pt) /\ isArray(base) /\ Len(pt.kids) = Len(base.kids)
    THEN Arr([j \in 1 .. Len(base.kids) |-> Apply(base.kids[j], pt.kids[j])])
  ELSE pt

\* C19: for records over the same keys, the patch laid over prev and diffed
\* against current again gives the empty patch.
C19_ApplyThenRediffEmpty ==
  (prim = "stateChanged" /\ phase = "diffed" /\ SameKeys(prev, current)) =>
    stateChanged(Apply(prev, changes), current) = Empty

\* ----------------------------------------------------------------- C20
\* Every key of the patch pt is a key of c, also inside nested patches and inside
\* the patches of array elements; a key of c that p lacks is in pt with c's value.
RECURSIVE KeysOfCurrent(_, _, _)
KeysOfCurrent(pt, p, c) ==
  \A i \in KeyIx :
    LET pv == p.kids[i]
        cv == c.kids[i]
        x == pt.kids[i]
    IN /\ cv = Missing => x = Missing
       /\ (cv # Missing /\ pv = Missing) => x = cv
       /\ (isObject(pv) /\ isObject(cv) /\ x # Missing) => KeysOfCurrent(x, pv, cv)
       /\ (isArray(pv) /\ isArray(cv) /\ Len(pv.kids) = Len(cv.kids) /\ x # Missing) =>
            \A j \in 1 .. Len(x.kids) :
              (isObject(pv.kids[j]) /\ isObject(cv.kids[j]) /\ x.kids[j] # Missing)
                => KeysOfCurrent(x.kids[j], pv.kids[j], cv.kids[j])

\* C20: the keys of the patch are keys of current, at every nesting level: a key
\* of prev that current lacks is never reported, and a key of current that prev
\* lacks is reported with current's value.
C20_PatchKeysWithinCurrent ==
  (prim = "stateChanged" /\ phase = "diffed") => KeysOfCurrent(changes, prev, current)

\* C20 witness: one level down prev has a key that current lacks and current has
\* a key that prev lacks; the patch holds the latter only.
C20_Witness ==
  /\ prim = "stateChanged"
  /\ phase = "diffed"
  /\ prev = Rec(Prim(1), Rec(Prim(1), Missing))
  /\ current = Rec(Missing, Rec(Missing, Prim(2)))
  /\ changes = Rec(Missing, Rec(Missing, Prim(2)))

\* ----------------------------------------------------------------- C21
\* A step of the diff leaves prev and current as they are, and the second
\* evaluation returns the patch the first returned.
C21_Step ==
  prim = "stateChanged" =>
    /\ prev' = prev
    /\ current' = current
    /\ phase' = "again" => again' = changes

DifferentKinds(pv, cv) == cv # Missing /\ pv.k # cv.k

\* C22: where prev[k] and current[k] are of different kinds, at a key or at an
\* index of two arrays of equal length, stateChanged returns a patch that holds
\* current's value, unmodified, under that key or at that index.
C22_KindMismatchReported ==
  (prim = "stateChanged" /\ phase = "diffed") =>
    \A i \in KeyIx :
      LET pv == prev.kids[i]
          cv == current.kids[i]
          x == changes.kids[i]
      IN /\ DifferentKinds(pv, cv) => x = cv
         /\ (isArray(pv) /\ isArray(cv) /\ Len(pv.kids) = Len(cv.kids)) =>
              \A j \in 1 .. Len(cv.kids) :
                DifferentKinds(pv.kids[j], cv.kids[j]) =>
                  /\ isArray(x)
                  /\ j <= Len(x.kids)
                  /\ x.kids[j] = cv.kids[j]

\* C22 witness: key a is missing in prev; in the arrays under key b a record
\* faces an array and a primitive faces null.  The patch is current itself.
C22_Witness ==
  /\ prim = "stateChanged"
  /\ phase = "diffed"
  /\ prev = Rec(Missing, Arr(<<Rec(Prim(1), Missing), Prim(1)>>))
  /\ current = Rec(Prim(1), Arr(<<Arr(<<Prim(1)>>), Null>>))
  /\ changes = current

\* ----------------------------------------------------------------- C23
\* A call of the throttle wrapper that reads a clock value earlier than the time
\* of the last execution runs fn inside the call and arms no timer.
C23_ThrottleCall ==
  (prim = "throttle" /\ Len(calls') = Len(calls) + 1 /\ DateNow < last) =>
    /\ Len(execs') = Len(execs) + 1
    /\ execs'[Len(execs')].src = "call"
    /\ timers' \subseteq timers

\* A timer expiry of debouncePress that reads a clock value earlier than the time
\* of the last call invokes fn with the last arguments and arms no timer.
C23_PressExpiry ==
  (/\ prim = "debouncePress"
   /\ calls' = calls
   /\ timers' # timers
   /\ lastCallTime # Undefined
   /\ DateNow < lastCallTime) =>
    /\ timers' \subseteq timers
    /\ timer' = NoTimer
    /\ lastArgs # Undefined =>
         /\ Len(execs') = Len(execs) + 1
         /\ execs'[Len(execs')].arg = lastArgs

\* C23: a clock value earlier than the recorded time of the last execution or
\* call is treated as "invoke now": throttle executes fn inside that call instead
\* of arming a timer, and the timer expiry of debouncePress invokes fn instead of
\* arming the timer again.
C23_SkewInvokesNow == [][C23_ThrottleCall /\ C23_PressExpiry]_vars

\* ---------------------------------------------------------------- C24
\* The executions of fn that returned.
Returned == {i \in 1 .. Len(execs) : ~execs[i].threw}

\* The value the last execution that returned left in result.
LastReturned ==
  IF Returned = {} THEN Undefined
  ELSE Func(execs[CHOOSE i \in Returned : \A j \in Returned : j <= i].arg)

\* An exception of fn leaves the wrapper where it was started: the synchronous
\* call for an immediate throttle execution, the timer callback otherwise.
C24_Propagates ==
  /\ \A i \in 1 .. Len(execs) :
       (execs[i].threw /\ execs[i].src = "call") =>
          /\ calls[execs[i].nCalls].threw
          /\ calls[execs[i].nCalls].ret = Undefined
  /\ (\E i \in 1 .. Len(execs) : execs[i].threw) => thrown \in {"call", "timer"}

\* A throwing execution leaves the cached result as it was.
C24_ResultKept == prim \in {"debounce", "throttle"} => result = LastReturned

\* At most one live timer, also after an exception.
C24_OneLiveTimer == Cardinality(timers) <= 1

\* throttle runs fn at most once per delay window, also after an exception.
C24_SameWindow ==
  prim = "throttle" =>
    \A i, j \in 1 .. Len(execs) :
      i < j => execs[j].t - execs[i].t >= (j - i) * delay

\* C24: an exception of fn is not caught by the wrapper, leaves the cached
\* result and the single timer slot as they were, and later calls are executed
\* under the same timing rules: a throwing immediate throttle execution is not
\* followed by a second execution of fn within the same delay window.
C24_ThrowLeavesWrapperSound ==
  /\ C24_Propagates
  /\ C24_ResultKept
  /\ C24_OneLiveTimer
  /\ C24_SameWindow

\* ---------------------------------------------------------------- C25
\* What one step of a component using useDebounce / useThrottle keeps.
C25_Step ==
  /\ Waited' = Waited
  /\ savedCallback' = savedCallback
  /\ renders' # renders => UNCHANGED <<timer, timers, result, last, nextId>>
  /\ Len(execs') > Len(execs) => execs'[Len(execs')].cb = 1
  /\ Cardinality(timers') <= 1
  /\ \A tm \in timers' \ timers :
       /\ tm.cb = 1
       /\ tm.due = IF prim = "debounce" THEN now + Waited ELSE last + Waited

\* C25: across re-renders useDebounce and useThrottle return the wrapper made at
\* the first render: a re-render leaves the timer slot and the last-result slot
\* alone, there is never more than one live timer, and every execution runs the
\* callback of the first render after the wait of the first render, whatever the
\* later renders pass.
C25_FirstRenderWrapper == [][C25_Step]_vars

\* A burst of debounced calls spans a re-render that passed another wait: the
\* call after the re-render found the timer of the call before it, and the one
\* execution of the burst ran the callback of the first render.
C25_Witness ==
  /\ prim = "debounce"
  /\ renders > 1
  /\ passedWait # wait
  /\ renderedAt >= 1
  /\ \E i \in 1 .. Len(execs) :
       /\ execs[i].nCalls > renderedAt
       /\ execs[i].cb = 1
       /\ calls[renderedAt].nExec = i - 1
       /\ calls[renderedAt + 1].nExec = i - 1
       /\ calls[renderedAt + 1].hadTimer

\* ---------------------------------------------------------------- C26
\* When value last changed (at the mount, if it never did), and to what.
ChangedAt(n) == IF n = 0 THEN Epoch ELSE calls[n].t
ValueAt(n) == IF n = 0 THEN 0 ELSE calls[n].arg

\* The callback has run for the quiet period that follows change n.
RanFor(n) == \E i \in 1 .. Len(execs) : execs[i].nCalls = n

C26_Safe ==
  /\ \A i \in 1 .. Len(execs) :
       /\ execs[i].arg = ValueAt(execs[i].nCalls)
       /\ execs[i].t >= ChangedAt(execs[i].nCalls) + AppDelay
       /\ \A j \in 1 .. Len(execs) : execs[j].nCalls = execs[i].nCalls => j = i
  /\ debounced = IF execs = <<>> THEN 0 ELSE execs[Len(execs)].arg
  /\ phase = "mounted" =>
       IF RanFor(Len(calls))
         THEN timers = {} /\ debounced = value
         ELSE \E tm \in timers :
                /\ timers = {tm}
                /\ tm.id = timer
                /\ tm.born = ChangedAt(Len(calls))
                /\ tm.due = tm.born + AppDelay

C27_DetailReadsAPost == modalFlag => targetIdx \in Rendered

\* The panel shows the last post of a list that posts were deleted from and
\* that a post was registered in.
C27_Witness ==
  /\ modalFlag
  /\ targetIdx = Len(post) - 1
  /\ Len(post) < Len(InitialPosts)
  /\ \E i \in 1 .. Len(post) : post[i] = 5

\* ---------------------------------------------------------------- C28
\* What one step of useRequest does to loading, data and error.
C28_Step ==
  /\ loading' => loading
  /\ IF Len(settled') > Len(settled)
       THEN LET s == settled'[Len(settled')]
            IN /\ ~loading'
               /\ s.how = "response" => data' = s.id /\ error' = error
               /\ s.how = "Error" => error' = s.id /\ data' = data
               /\ s.how = "other" => data' = data /\ error' = error
       ELSE \/ UNCHANGED <<loading, data, error>>
            \/ ~loading' /\ data' = 0 /\ error' = 0 /\ UNCHANGED pending

\* C28: loading is true from the mount until the first request settles or
\* onReset is called and never becomes true again, also when a request is made
\* later; a settling request writes data (a response) or error (an Error), never
\* both, so data and error are those of the requests that settled last.
C28_LoadingOnceSettledLastWins == [][C28_Step]_vars

\* Request 2 settled before request 1, both with a response: data is the
\* response of request 1, and loading is false while request 3 is in flight.
C28_Witness ==
  /\ Len(settled) = 2
  /\ settled[1] = [id |-> 2, how |-> "response"]
  /\ settled[2] = [id |-> 1, how |-> "response"]
  /\ data = 1
  /\ ~loading
  /\ pending = {3}

====
